---- MODULE Spec2Model ----
(***************************************************************************)
(* Model of PFERD/report.py: the Report class (a registry of paths of one  *)
(* synchronization) with its two exceptions and the helper is_relative_to. *)
(*                                                                         *)
(* A PurePath is modelled by the sequence of its parts; PurePath(".") is   *)
(* the empty sequence.  Python iterates a set in an order the program does *)
(* not control (str hashes are salted per process), so the loop of         *)
(* Report.mark runs over an arbitrary ordering of known & reserved.        *)
(***************************************************************************)
EXTENDS Naturals, Sequences, FiniteSets

\* Bounds of the model.
MaxLen == 2       \* longest path, in parts
MaxCalls == 4     \* calls made on one Report

Segments == {"a", "b"}

\* The paths the calls are made with: the directories ".", "a", "a/a", ... down
\* to MaxLen parts, and the entry "b" beside "a" in the deepest of them.
Paths ==
    {p \in UNION {[1..n -> Segments] : n \in 0..MaxLen} :
        \A i \in 1..Len(p) : p[i] = "b" => i = MaxLen}

Threads == {"t1", "t2"}

VARIABLES
    reserved_files,   \* Report.reserved_files
    known_files,      \* Report.known_files
    new_files,        \* Report.new_files
    changed_files,    \* Report.changed_files
    deleted_files,    \* Report.deleted_files
    result,           \* the last call made: its name, argument and outcome
    calls,            \* number of calls made so far
    marked_reserved,  \* history: paths that mark accepted while they were reserved
    inflight,         \* per thread: the mark call it is in the middle of, if any
    overlapped        \* history: some mark call started while another was in flight

vars == <<reserved_files, known_files, new_files, changed_files, deleted_files,
          result, calls, marked_reserved, inflight, overlapped>>

sets == <<reserved_files, known_files, new_files, changed_files, deleted_files>>

----------------------------------------------------------------------------
\* Exceptions and return values

NoException == [type |-> "None"]

MarkDuplicateException(path) ==
    [type |-> "MarkDuplicateException", path |-> path]

MarkConflictException(path, collides_with) ==
    [type |-> "MarkConflictException", path |-> path, collides_with |-> collides_with]

ValueError == [type |-> "ValueError"]

----------------------------------------------------------------------------
\* PurePath.relative_to(b) on a: the parts of a after those of b, or ValueError
\* when the parts of a do not start with the parts of b.
relative_to(a, b) ==
    IF Len(b) <= Len(a) /\ SubSeq(a, 1, Len(b)) = b
    THEN [type |-> "None", value |-> SubSeq(a, Len(b) + 1, Len(a))]
    ELSE ValueError

\* Mutant: compares the numbers of parts only, not the parts.
is_relative_to_length(a, b) == Len(b) <= Len(a)

is_relative_to(a, b) == relative_to(a, b) # ValueError

\* The orders in which a set may be iterated.
Orders(S) ==
    {f \in [1..Cardinality(S) -> S] : \A i, j \in DOMAIN f : f[i] = f[j] => i = j}

\* Mutant: the loop runs over all of known_files.
conflict_set_known == known_files

\* Mutant: the loop runs over known_files | reserved_files.
conflict_set_union == known_files \cup reserved_files

\* known_files & reserved_files, the set the loop of mark runs over.
conflict_set == known_files \cap reserved_files

\* Mutant: no test for path == other, an equal path is reported as a conflict.
mark_check_noduplicate(path, other) ==
    IF is_relative_to(path, other) \/ is_relative_to(other, path)
    THEN MarkConflictException(path, other)
    ELSE NoException

\* Mutant: the arguments of MarkConflictException are swapped.
mark_check_swapped(path, other) ==
    IF path = other
    THEN MarkDuplicateException(path)
    ELSE IF is_relative_to(path, other) \/ is_relative_to(other, path)
         THEN MarkConflictException(other, path)
         ELSE NoException

\* Mutant: only a known ancestor of path is a conflict, not a known descendant.
mark_check_oneway(path, other) ==
    IF path = other
    THEN MarkDuplicateException(path)
    ELSE IF is_relative_to(path, other)
         THEN MarkConflictException(path, other)
         ELSE NoException

\* Mutant: the two tests of the loop body are in the other order.
mark_check_conflict_first(path, other) ==
    IF is_relative_to(path, other) \/ is_relative_to(other, path)
    THEN MarkConflictException(path, other)
    ELSE IF path = other
         THEN MarkDuplicateException(path)
         ELSE NoException

\* Mutant: only a known descendant of path is a conflict, not a known ancestor.
mark_check_descendant_only(path, other) ==
    IF path = other
    THEN MarkDuplicateException(path)
    ELSE IF is_relative_to(other, path)
         THEN MarkConflictException(path, other)
         ELSE NoException

\* One iteration of the loop of mark: the exception it raises, if any.
mark_check(path, other) ==
    IF path = other
    THEN MarkDuplicateException(path)
    ELSE IF is_relative_to(path, other) \/ is_relative_to(other, path)
         THEN MarkConflictException(path, other)
         ELSE NoException

\* The loop of mark over `order` from position i: the first exception raised.
RECURSIVE mark_loop(_, _, _)
mark_loop(path, order, i) ==
    IF i > Len(order)
    THEN NoException
    ELSE IF mark_check(path, order[i]) # NoException
         THEN mark_check(path, order[i])
         ELSE mark_loop(path, order, i + 1)

\* The outcomes mark(path) may have in the current state.
mark_outcomes(path) ==
    {mark_loop(path, order, 1) : order \in Orders(conflict_set)}

\* Mutant: the path is added before the loop, so a failed mark keeps it.
mark_insert_always(path, exc) == known_files \cup {path}

\* Mutant: a mark that raises takes the path out of known_files again.
mark_insert_rollback(path, exc) ==
    IF exc = NoException THEN known_files \cup {path} ELSE known_files \ {path}

\* known_files after mark(path) ended with exc.
mark_insert(path, exc) ==
    IF exc = NoException THEN known_files \cup {path} ELSE known_files

----------------------------------------------------------------------------
Idle == [pc |-> "idle"]

Init ==
    /\ reserved_files = {}
    /\ known_files = {}
    /\ new_files = {}
    /\ changed_files = {}
    /\ deleted_files = {}
    /\ result = [op |-> "__init__"]
    /\ calls = 0
    /\ marked_reserved = {}
    /\ inflight = [t \in Threads |-> Idle]
    /\ overlapped = FALSE

Returned(op, path, exc) == [op |-> op, path |-> path, exc |-> exc]

\* Mutant: the path is added to known_files as well.
mark_reserved_known(path) ==
    /\ calls < MaxCalls
    /\ reserved_files' = reserved_files \cup {path}
    /\ known_files' = known_files \cup {path}
    /\ result' = Returned("mark_reserved", path, NoException)
    /\ calls' = calls + 1
    /\ UNCHANGED <<new_files, changed_files, deleted_files,
                   marked_reserved, inflight, overlapped>>

mark_reserved(path) ==
    /\ calls < MaxCalls
    /\ reserved_files' = reserved_files \cup {path}
    /\ result' = Returned("mark_reserved", path, NoException)
    /\ calls' = calls + 1
    /\ UNCHANGED <<known_files, new_files, changed_files, deleted_files,
                   marked_reserved, inflight, overlapped>>

mark(path) ==
    /\ calls < MaxCalls
    /\ \E exc \in mark_outcomes(path) :
          /\ known_files' = mark_insert(path, exc)
          /\ result' = Returned("mark", path, exc)
          /\ marked_reserved' =
                IF exc = NoException /\ path \in reserved_files
                THEN marked_reserved \cup {path}
                ELSE marked_reserved
    /\ calls' = calls + 1
    /\ UNCHANGED <<reserved_files, new_files, changed_files, deleted_files,
                   inflight, overlapped>>

\* Mutant: a reserved path counts as marked.
marked_value_reserved(path) == path \in known_files \cup reserved_files

\* The value marked(path) returns.
marked_value(path) == path \in known_files

marked(path) ==
    /\ calls < MaxCalls
    /\ result' = [op |-> "marked", path |-> path, exc |-> NoException,
                  value |-> marked_value(path)]
    /\ calls' = calls + 1
    /\ UNCHANGED <<sets, marked_reserved, inflight, overlapped>>

add_file(path) ==
    /\ calls < MaxCalls
    /\ new_files' = new_files \cup {path}
    /\ result' = Returned("add_file", path, NoException)
    /\ calls' = calls + 1
    /\ UNCHANGED <<reserved_files, known_files, changed_files, deleted_files,
                   marked_reserved, inflight, overlapped>>

\* Mutant: changed_files is assigned, not added to.
change_file_assign(path) ==
    /\ calls < MaxCalls
    /\ changed_files' = {path}
    /\ result' = Returned("change_file", path, NoException)
    /\ calls' = calls + 1
    /\ UNCHANGED <<reserved_files, known_files, new_files, deleted_files,
                   marked_reserved, inflight, overlapped>>

change_file(path) ==
    /\ calls < MaxCalls
    /\ changed_files' = changed_files \cup {path}
    /\ result' = Returned("change_file", path, NoException)
    /\ calls' = calls + 1
    /\ UNCHANGED <<reserved_files, known_files, new_files, deleted_files,
                   marked_reserved, inflight, overlapped>>

\* Mutant: a deleted file is taken out of new_files.
delete_file_discard(path) ==
    /\ calls < MaxCalls
    /\ deleted_files' = deleted_files \cup {path}
    /\ new_files' = new_files \ {path}
    /\ result' = Returned("delete_file", path, NoException)
    /\ calls' = calls + 1
    /\ UNCHANGED <<reserved_files, known_files, changed_files,
                   marked_reserved, inflight, overlapped>>

delete_file(path) ==
    /\ calls < MaxCalls
    /\ deleted_files' = deleted_files \cup {path}
    /\ result' = Returned("delete_file", path, NoException)
    /\ calls' = calls + 1
    /\ UNCHANGED <<reserved_files, known_files, new_files, changed_files,
                   marked_reserved, inflight, overlapped>>

Next ==
    \E path \in Paths :
        \/ mark_reserved(path)
        \/ mark(path)
        \/ marked(path)
        \/ add_file(path)
        \/ change_file(path)
        \/ delete_file(path)

Spec == Init /\ [][Next]_vars

----------------------------------------------------------------------------
\* Report used from several threads without a lock.  A thread switch may fall
\* between the evaluation of known_files & reserved_files (line 65), whose
\* result the loop then iterates, and known_files.add (line 72).

\* mark_reserved called by a thread that is not inside mark.
thread_mark_reserved(t, path) ==
    /\ inflight[t] = Idle
    /\ mark_reserved(path)

\* Thread t runs mark(path) up to the end of the loop: it raises, or is left
\* about to add path to known_files.
mark_begin(t, path) ==
    /\ calls < MaxCalls
    /\ inflight[t] = Idle
    /\ calls' = calls + 1
    /\ overlapped' = (overlapped \/ \E u \in Threads \ {t} : inflight[u] # Idle)
    /\ \E exc \in mark_outcomes(path) :
          IF exc = NoException
          THEN /\ inflight' = [inflight EXCEPT ![t] =
                      [pc |-> "add", path |-> path,
                       reserved |-> path \in reserved_files]]
               /\ UNCHANGED result
          ELSE /\ result' = Returned("mark", path, exc)
               /\ UNCHANGED inflight
    /\ UNCHANGED <<sets, marked_reserved>>

\* Thread t runs known_files.add(path) and returns from mark.
mark_end(t) ==
    /\ inflight[t] # Idle
    /\ known_files' = mark_insert(inflight[t].path, NoException)
    /\ result' = Returned("mark", inflight[t].path, NoException)
    /\ marked_reserved' =
          IF inflight[t].reserved
          THEN marked_reserved \cup {inflight[t].path}
          ELSE marked_reserved
    /\ inflight' = [inflight EXCEPT ![t] = Idle]
    /\ UNCHANGED <<reserved_files, new_files, changed_files, deleted_files,
                   calls, overlapped>>

NextRace ==
    \E t \in Threads :
        \/ \E path \in Paths : thread_mark_reserved(t, path)
        \/ \E path \in Paths : mark_begin(t, path)
        \/ mark_end(t)

SpecRace == Init /\ [][NextRace]_vars

----------------------------------------------------------------------------
\* Report used by a caller that reserves every path before it marks it.

reserved_mark(path) ==
    /\ path \in reserved_files
    /\ mark(path)

NextReserveFirst ==
    \E path \in Paths :
        \/ mark_reserved(path)
        \/ reserved_mark(path)
        \/ marked(path)
        \/ add_file(path)
        \/ change_file(path)
        \/ delete_file(path)

SpecReserveFirst == Init /\ [][NextReserveFirst]_vars

----------------------------------------------------------------------------
\* Vocabulary of the properties, defined on the parts of the paths and not by
\* the program's is_relative_to.

\* q is a strict ancestor of p: the parts of q are a proper prefix of those of p.
StrictAncestor(q, p) ==
    /\ Len(q) < Len(p)
    /\ \A i \in 1..Len(q) : q[i] = p[i]

Collides(p, q) == p = q \/ StrictAncestor(p, q) \/ StrictAncestor(q, p)

Related(p, q) == StrictAncestor(p, q) \/ StrictAncestor(q, p)

NoOutcomes == new_files = {} /\ changed_files = {} /\ deleted_files = {}

IsMark(r) == r.op = "mark"

Succeeded(r) == r.exc = NoException

----------------------------------------------------------------------------
\* C1: in every reachable state no two distinct paths that are both known and
\* reserved are strict ancestor and descendant of each other.
C1_NoAncestorPairKnownReserved ==
    \A p, q \in known_files \cap reserved_files : ~StrictAncestor(p, q)

C3_FailedMarkChangesNothing ==
    [][IsMark(result') /\ ~Succeeded(result') =>
         /\ UNCHANGED sets
         /\ \A q \in Paths : mark_outcomes(q)' = mark_outcomes(q)
         /\ \A q \in Paths : marked_value(q)' = marked_value(q)
      ]_vars

\* C3 witness: a mark failed with a conflict on a path that is not known.
C3_Witness ==
    /\ IsMark(result)
    /\ result.exc.type = "MarkConflictException"
    /\ result.path \notin known_files

\* C4: when mark(p) succeeded with p reserved, a second mark(p) made right after
\* it raises MarkDuplicateException(p), and marked(p) holds before and after.
C4_SecondMarkIsDuplicate ==
    [][(/\ IsMark(result) /\ Succeeded(result)
        /\ result.path \in reserved_files
        /\ IsMark(result') /\ result'.path = result.path) =>
         /\ result'.exc = MarkDuplicateException(result.path)
         /\ marked_value(result.path)
         /\ marked_value(result.path)'
      ]_vars

\* C4 witness: reserve p, mark p, mark p on a new Report ended with the
\* duplicate.
C4_Witness ==
    /\ calls = 3
    /\ IsMark(result)
    /\ result.exc = MarkDuplicateException(result.path)
    /\ marked_reserved = {result.path}
    /\ known_files = {result.path}

C6_BothAcceptedOnlyByOverlap ==
    (\E p, q \in marked_reserved : StrictAncestor(p, q)) => overlapped

\* C6 witness: two reserved paths, one a strict ancestor of the other, were both
\* accepted.
C6_Witness ==
    \E p, q \in marked_reserved :
        StrictAncestor(p, q) /\ {p, q} \subseteq known_files \cap reserved_files

C8_UnrelatedMarksCommute ==
    (IsMark(result) /\ NoOutcomes) =>
        \A p \in reserved_files :
            (/\ p # result.path /\ ~Related(p, result.path)
             /\ reserved_files = {p, result.path}) =>
                /\ calls = 3 =>
                       /\ Succeeded(result)
                       /\ known_files = {result.path}
                /\ (calls = 4 /\ p \in marked_reserved) =>
                       /\ Succeeded(result)
                       /\ known_files = {p, result.path}
                       /\ marked_reserved = {p, result.path}

\* C8 witness: two reserved, unrelated paths were marked in four calls.
C8_Witness ==
    /\ calls = 4
    /\ IsMark(result)
    /\ Cardinality(known_files) = 2
    /\ reserved_files = known_files
    /\ marked_reserved = known_files
    /\ \A p, q \in known_files : ~Related(p, q)

\* C9: no operation removes a path from any of the five sets.
C9_SetsOnlyGrow ==
    [][/\ reserved_files \subseteq reserved_files'
       /\ known_files \subseteq known_files'
       /\ new_files \subseteq new_files'
       /\ changed_files \subseteq changed_files'
       /\ deleted_files \subseteq deleted_files'
      ]_vars

\* C9 witness: a call was made on a Report with paths in three of its sets.
C9_Witness ==
    /\ calls = MaxCalls
    /\ reserved_files # {}
    /\ known_files # {}
    /\ changed_files # {}

\* C10: add_file, change_file and delete_file never raise, insert the path into
\* their own set and change no other set, so that a path given to all three is
\* in all three sets, and they change the outcome of no later mark.
C10_RecordsTouchOwnSetOnly ==
    [][/\ result'.op = "add_file" =>
             /\ Succeeded(result')
             /\ new_files' = new_files \cup {result'.path}
             /\ UNCHANGED <<reserved_files, known_files, changed_files, deleted_files>>
       /\ result'.op = "change_file" =>
             /\ Succeeded(result')
             /\ changed_files' = changed_files \cup {result'.path}
             /\ UNCHANGED <<reserved_files, known_files, new_files, deleted_files>>
       /\ result'.op = "delete_file" =>
             /\ Succeeded(result')
             /\ deleted_files' = deleted_files \cup {result'.path}
             /\ UNCHANGED <<reserved_files, known_files, new_files, changed_files>>
       /\ result'.op \in {"add_file", "change_file", "delete_file"} =>
             \A q \in Paths : mark_outcomes(q)' = mark_outcomes(q)
      ]_vars

\* C10 witness: three calls, one of each, with one path that is neither reserved
\* nor known, left it in all three sets.
C10_Witness ==
    /\ calls = 3
    /\ \E p \in Paths :
          /\ new_files = {p} /\ changed_files = {p} /\ deleted_files = {p}
          /\ p \notin reserved_files \cup known_files

\* C11: mark_reserved never raises and changes reserved_files only, adding the
\* path; reserving a path that is already reserved changes none of the sets.
C11_ReserveIsIdempotent ==
    [][result'.op = "mark_reserved" =>
         /\ Succeeded(result')
         /\ reserved_files' = reserved_files \cup {result'.path}
         /\ UNCHANGED <<known_files, new_files, changed_files, deleted_files>>
         /\ result'.path \in reserved_files => UNCHANGED sets
      ]_vars

\* C11 witness: a path was reserved, marked and reserved again.
C11_Witness ==
    /\ calls = 3
    /\ result.op = "mark_reserved"
    /\ reserved_files = {result.path}
    /\ marked_reserved = {result.path}

\* C12: marked changes no set and returns whether the path is known; no path is
\* marked on a new Report, a path becomes marked exactly in a mark of it that
\* succeeds, and stays marked; mark(p) right after mark_reserved(p) on a new
\* Report succeeds.
C12_MarkedIffMarkSucceeded ==
    /\ \A p \in Paths : ~marked_value(p)
    /\ [][/\ \A p \in Paths :
                marked_value(p)' <=>
                    \/ marked_value(p)
                    \/ IsMark(result') /\ Succeeded(result') /\ result'.path = p
          /\ result'.op = "marked" =>
                /\ UNCHANGED sets
                /\ Succeeded(result')
                /\ result'.value = (result'.path \in known_files)
          /\ (/\ calls = 1 /\ result.op = "mark_reserved"
              /\ IsMark(result') /\ result'.path = result.path) =>
                /\ Succeeded(result')
                /\ marked_value(result.path)'
         ]_vars

\* C12 witness: after mark_reserved(p) and mark(p) on a new Report, marked(p)
\* returned True.
C12_Witness ==
    /\ calls = 3
    /\ result.op = "marked"
    /\ result.value
    /\ reserved_files = {result.path}
    /\ marked_reserved = {result.path}

\* C13: only mark raises, and what it raises is MarkDuplicateException with the
\* marked path or MarkConflictException with the marked path and a path that is
\* known and reserved at the call, differs from the marked path and is a strict
\* ancestor or descendant of it.
C13_OnlyMarkRaises ==
    [][/\ ~IsMark(result') => Succeeded(result')
       /\ IsMark(result') =>
             \/ Succeeded(result')
             \/ result'.exc = MarkDuplicateException(result'.path)
             \/ \E other \in known_files \cap reserved_files :
                   /\ result'.exc = MarkConflictException(result'.path, other)
                   /\ other # result'.path
                   /\ Related(result'.path, other)
      ]_vars

\* C13 witness: the mark of an unreserved path raised a conflict with a known
\* and reserved path.
C13_Witness ==
    /\ IsMark(result)
    /\ result.exc.type = "MarkConflictException"
    /\ result.path \notin reserved_files
    /\ result.exc.collides_with \in known_files \cap reserved_files

\* C14: in every state the kind of outcome of mark(p) is the same for every
\* order of iteration of known & reserved, and mark(p) with p known and reserved
\* raises MarkDuplicateException(p).
C14_MarkOutcomeDetermined ==
    \A p \in Paths :
        /\ Cardinality({exc.type : exc \in mark_outcomes(p)}) = 1
        /\ p \in known_files \cap reserved_files =>
               mark_outcomes(p) = {MarkDuplicateException(p)}

\* C15: a mark that cannot succeed in a state cannot succeed in any later
\* state, whatever calls are made in between.
C15_MarkFailureIsPermanent ==
    [][\A p \in Paths :
          NoException \notin mark_outcomes(p) =>
              NoException \notin mark_outcomes(p)'
      ]_vars

\* C15 witness: a path was reserved and marked, so that its mark cannot succeed
\* again, and calls that changed other sets followed.
C15_Witness ==
    /\ calls = 4
    /\ result.op \in {"mark_reserved", "add_file", "change_file", "delete_file"}
    /\ result.path \notin known_files
    /\ \E p \in marked_reserved : NoException \notin mark_outcomes(p)

\* C16: when mark is only called with a path that is already reserved, every
\* known path is reserved and no two known paths are strict ancestor and
\* descendant of each other.
C16_ReserveFirstKeepsKnownConflictFree ==
    /\ known_files \subseteq reserved_files
    /\ \A p, q \in known_files : ~StrictAncestor(p, q)

\* C16 witness: a path is known and the mark of a reserved strict ancestor or
\* descendant of it was refused.
C16_Witness ==
    /\ IsMark(result)
    /\ result.exc.type = "MarkConflictException"
    /\ result.path \in reserved_files
    /\ known_files # {}

====
